---------------------------- MODULE Spec2Model ----------------------------
(***************************************************************************)
(* dlss_wgpu: extension negotiation (initialization.rs) and the feature    *)
(* context lifecycle of DlssSuperResolution / DlssRayReconstruction        *)
(* (super_resolution.rs, ray_reconstruction.rs).                           *)
(*                                                                         *)
(* The Upscaling Runtime (NGX), the Vulkan loader and wgpu are external:   *)
(* every value they return is an input drawn from a small set.             *)
(***************************************************************************)
EXTENDS Integers, Sequences, FiniteSets, TLC

VARIABLES
    feature_support,  \* the caller's FeatureSupport record (&mut)
    init,             \* the last create_instance / request_device call
    lock,             \* holder of the Mutex<DlssSdk> (0: free)
    poisoned,         \* the Mutex<DlssSdk> is poisoned
    pc,               \* pc[t]: where caller t is inside its current call
    call,             \* call[t]: arguments, locals and result of t's call
    ctx,              \* ctx[t]: the context object caller t owns
    enc,              \* enc[t]: commands recorded in t's active encoder
    queue,            \* command buffers submitted and not yet executed
    released,         \* the native handles given to ReleaseFeature
    next_handle       \* the next handle the runtime hands out

vars == <<feature_support, init, lock, poisoned, pc, call, ctx, enc, queue,
          released, next_handle>>

initVars == <<feature_support, init>>
lifeVars == <<lock, poisoned, pc, call, ctx, enc, queue, released, next_handle>>

---------------------------------------------------------------------------
(* Bounds of the model.                                                    *)

\* longest list of required extensions the runtime reports for a feature
MaxReqExt == 1
\* largest width / height of an output resolution
MaxRes == 2
\* number of native handles the runtime can hand out
MaxHandles == 2
\* render is called on an encoder holding at most this many commands
MaxEnc == 1
\* most command buffers pending on the queue
MaxQueue == 2
\* largest width of an output or render resolution given to suggested_jitter
MaxWidth == 3
\* largest frame number given to suggested_jitter
MaxFrame == 33

---------------------------------------------------------------------------
(* Values.                                                                 *)

Features == {"super_resolution", "ray_reconstruction"}
Exts == {"ext_a", "ext_b"}
Backends == {"Vulkan", "Other"}
NgxSuccess == "Success"
NgxResults == {NgxSuccess, "FAIL_FeatureNotSupported", "FAIL_OutOfDate"}

RECURSIVE SeqsUpTo(_, _)
SeqsUpTo(S, n) ==
    IF n = 0 THEN {<<>>}
    ELSE LET shorter == SeqsUpTo(S, n - 1)
         IN  shorter \cup {Append(s, x) : s \in {q \in shorter : Len(q) = n - 1}, x \in S}

Range(s) == {s[i] : i \in 1..Len(s)}

\* a list of distinct extension names, as the runtime reports it
ReqLists == {s \in SeqsUpTo(Exts, MaxReqExt) : Cardinality(Range(s)) = Len(s)}

\* check_ngx_result: Ok(()) for the success status, else Err(DlssError)
check_ngx_result(status) ==
    IF status = NgxSuccess THEN [ok |-> TRUE, err |-> "none", status |-> status]
    ELSE [ok |-> FALSE, err |-> "DlssError", status |-> status]

---------------------------------------------------------------------------
(* Extension negotiation: initialization.rs                                *)

\* What the runtime and the loader answer to one requirement query: a
\* query the runtime fails reports no extension and enumerates nothing.
Answered(q) == q.ngx # NgxSuccess => (q.required = <<>> /\ q.enum_ok)

InstanceQueries ==
    {q \in [ngx : NgxResults \ {"FAIL_OutOfDate"}, required : ReqLists, enum_ok : BOOLEAN] :
        Answered(q)}
DeviceQueries ==
    {q \in [ngx : NgxResults \ {"FAIL_OutOfDate"}, required : ReqLists, enum_ok : {TRUE}] :
        Answered(q)}

\* required_instance_extensions: Ok((extensions, supported)) or Err
required_instance_extensions(q, supported) ==
    LET r == check_ngx_result(q.ngx)
    IN  IF ~r.ok THEN [ok |-> FALSE, err |-> r.err, extensions |-> <<>>, supported |-> FALSE]
        ELSE IF ~q.enum_ok
        THEN [ok |-> FALSE, err |-> "VulkanError", extensions |-> <<>>, supported |-> FALSE]
        ELSE [ok |-> TRUE, err |-> "none", extensions |-> q.required,
              supported |-> \A i \in 1..Len(q.required) : q.required[i] \in supported]

\* required_device_extensions: Ok((extensions, supported)) or Err
required_device_extensions(q, supported) ==
    LET r == check_ngx_result(q.ngx)
    IN  IF ~r.ok THEN [ok |-> FALSE, err |-> r.err, extensions |-> <<>>, supported |-> FALSE]
        ELSE [ok |-> TRUE, err |-> "none", extensions |-> q.required,
              supported |-> \A i \in 1..Len(q.required) : q.required[i] \in supported]

\* NegotiateFeature with the Ok((_, false)) arm leaving the flag alone
NegotiateFeature_KeepsFlag(s, f, r) ==
    IF r.ok /\ r.supported
    THEN [s EXCEPT !.extensions = s.extensions \o r.extensions]
    ELSE IF r.ok
    THEN s
    ELSE [s EXCEPT !.result = r.err]

\* NegotiateFeature with every Ok arm also storing Ok(()) in result
NegotiateFeature_ClearsError(s, f, r) ==
    IF r.ok /\ r.supported
    THEN [s EXCEPT !.extensions = s.extensions \o r.extensions, !.result = "none"]
    ELSE IF r.ok
    THEN [s EXCEPT !.feature_support = [s.feature_support EXCEPT ![f] = FALSE],
                   !.result = "none"]
    ELSE [s EXCEPT !.result = r.err]

\* NegotiateFeature doing nothing once a query has failed
NegotiateFeature_StopsAfterError(s, f, r) ==
    IF s.result # "none" THEN s
    ELSE IF r.ok /\ r.supported
    THEN [s EXCEPT !.extensions = s.extensions \o r.extensions]
    ELSE IF r.ok
    THEN [s EXCEPT !.feature_support = [s.feature_support EXCEPT ![f] = FALSE]]
    ELSE [s EXCEPT !.result = r.err]

\* NegotiateFeature appending the extensions of an unsupported feature too
NegotiateFeature_AppendsUnsupported(s, f, r) ==
    IF r.ok /\ r.supported
    THEN [s EXCEPT !.extensions = s.extensions \o r.extensions]
    ELSE IF r.ok
    THEN [s EXCEPT !.feature_support = [s.feature_support EXCEPT ![f] = FALSE],
                   !.extensions = s.extensions \o r.extensions]
    ELSE [s EXCEPT !.result = r.err]

\* NegotiateFeature with the Ok((extensions, true)) arm marking the feature supported
NegotiateFeature_RaisesFlag(s, f, r) ==
    IF r.ok /\ r.supported
    THEN [s EXCEPT !.extensions = s.extensions \o r.extensions,
                   !.feature_support = [s.feature_support EXCEPT ![f] = TRUE]]
    ELSE IF r.ok
    THEN [s EXCEPT !.feature_support = [s.feature_support EXCEPT ![f] = FALSE]]
    ELSE [s EXCEPT !.result = r.err]

\* One match of the callback: s = [extensions, feature_support, result],
\* r the result of the requirement query for feature f.
NegotiateFeature(s, f, r) ==
    IF r.ok /\ r.supported
    THEN [s EXCEPT !.extensions = s.extensions \o r.extensions]
    ELSE IF r.ok
    THEN [s EXCEPT !.feature_support = [s.feature_support EXCEPT ![f] = FALSE]]
    ELSE [s EXCEPT !.result = r.err]

\* The callback handed to init_with_callback / open_with_callback: Super
\* Resolution first, Ray Reconstruction second.
Callback(extensions, fs, r_sr, r_rr) ==
    NegotiateFeature(
        NegotiateFeature([extensions |-> extensions, feature_support |-> fs,
                          result |-> "none"],
                         "super_resolution", r_sr),
        "ray_reconstruction", r_rr)

\* the outcome of one requirement query, as the callback sees it
Outcome(r) ==
    IF ~r.ok THEN "error" ELSE IF r.supported THEN "satisfied" ELSE "unsupported"

NoCall ==
    [op |-> "none", backend |-> "Vulkan", pre |-> [f \in Features |-> TRUE],
     outcome |-> [f \in Features |-> "not_queried"], required |-> [f \in Features |-> <<>>],
     callback_ran |-> FALSE, base |-> <<>>, extensions |-> <<>>,
     native_created |-> FALSE, result |-> "none", returned |-> FALSE,
     instance |-> <<>>]

\* what wgpu-hal does around the callback: fails before it, runs it and
\* fails to create, or runs it and creates
HalOutcomes == {"fail_before_callback", "fail_after_callback", "created"}
BaseExts == {<<>>, <<"ext_base">>}

\* create_instance(project_id, instance_descriptor, feature_support)
CreateInstanceResult(fs, hal, base, q_sr, q_rr, supported) ==
    LET r_sr == required_instance_extensions(q_sr, supported)
        r_rr == required_instance_extensions(q_rr, supported)
        cb == Callback(base, fs, r_sr, r_rr)
        called == [NoCall EXCEPT !.op = "create_instance", !.pre = fs, !.base = base]
    IN  IF hal = "fail_before_callback"
        THEN [fs |-> fs,
              log |-> [called EXCEPT !.result = "InstanceError"]]
        ELSE LET ran == [called EXCEPT
                            !.callback_ran = TRUE,
                            !.outcome = [f \in Features |->
                                IF f = "super_resolution" THEN Outcome(r_sr) ELSE Outcome(r_rr)],
                            !.required = [f \in Features |->
                                IF f = "super_resolution" THEN q_sr.required ELSE q_rr.required],
                            !.extensions = cb.extensions,
                            !.native_created = (hal = "created")]
             IN  IF hal = "fail_after_callback"
                 THEN [fs |-> cb.feature_support,
                       log |-> [ran EXCEPT !.result = "InstanceError"]]
                 ELSE IF cb.result # "none"
                 THEN [fs |-> cb.feature_support,
                       log |-> [ran EXCEPT !.result = cb.result]]
                 ELSE [fs |-> cb.feature_support,
                       log |-> [ran EXCEPT !.result = "Ok", !.returned = TRUE]]

CreateInstanceWith(queries, bases) ==
    \E hal \in HalOutcomes, base \in bases, q_sr \in queries,
       q_rr \in queries, supported \in SUBSET Exts :
        LET out == CreateInstanceResult(feature_support, hal, base, q_sr, q_rr, supported)
        IN  /\ init.op = "none"
            /\ feature_support' = out.fs
            /\ init' = out.log
            /\ UNCHANGED lifeVars

CreateInstance == CreateInstanceWith(InstanceQueries, BaseExts)

\* what request_device is told of the create_instance call that made the
\* adapter's instance: nothing but the flags that call left in feature_support
InstanceOf(log) ==
    IF log.op = "create_instance" THEN <<[pre |-> log.pre, outcome |-> log.outcome]>>
    ELSE <<>>

\* adapter.as_hal::<Vulkan>().ok_or(InitializationError::UnsupportedBackend)?
AdapterAsHal(backend) == backend = "Vulkan"

\* request_device(project_id, adapter, device_descriptor, feature_support);
\* hal: open_with_callback; create_ok: create_device_from_hal
RequestDeviceResult(fs, backend, hal, create_ok, base, q_sr, q_rr, supported) ==
    LET r_sr == required_device_extensions(q_sr, supported)
        r_rr == required_device_extensions(q_rr, supported)
        cb == Callback(base, fs, r_sr, r_rr)
        called == [NoCall EXCEPT !.op = "request_device", !.pre = fs, !.base = base,
                                 !.backend = backend]
    IN  IF ~AdapterAsHal(backend)
        THEN [fs |-> fs, log |-> [called EXCEPT !.result = "UnsupportedBackend"]]
        ELSE IF hal = "fail_before_callback"
        THEN [fs |-> fs, log |-> [called EXCEPT !.result = "DeviceError"]]
        ELSE LET ran == [called EXCEPT
                            !.callback_ran = TRUE,
                            !.outcome = [f \in Features |->
                                IF f = "super_resolution" THEN Outcome(r_sr) ELSE Outcome(r_rr)],
                            !.required = [f \in Features |->
                                IF f = "super_resolution" THEN q_sr.required ELSE q_rr.required],
                            !.extensions = cb.extensions,
                            !.native_created = (hal = "created")]
             IN  IF hal = "fail_after_callback"
                 THEN [fs |-> cb.feature_support,
                       log |-> [ran EXCEPT !.result = "DeviceError"]]
                 ELSE IF cb.result # "none"
                 THEN [fs |-> cb.feature_support,
                       log |-> [ran EXCEPT !.result = cb.result]]
                 ELSE IF ~create_ok
                 THEN [fs |-> cb.feature_support,
                       log |-> [ran EXCEPT !.result = "RequestDeviceError"]]
                 ELSE [fs |-> cb.feature_support,
                       log |-> [ran EXCEPT !.result = "Ok", !.returned = TRUE]]

RequestDeviceWith(backends, queries, bases) ==
    \E backend \in backends, hal \in HalOutcomes, base \in bases,
       q_sr \in queries, q_rr \in queries, supported \in SUBSET Exts,
       create_ok \in BOOLEAN :
        LET out == RequestDeviceResult(feature_support, backend, hal, create_ok, base,
                                       q_sr, q_rr, supported)
        IN  /\ init.op # "request_device"
            \* create_device_from_hal is only reached with an open device
            /\ hal # "created" => create_ok
            /\ feature_support' = out.fs
            /\ init' = [out.log EXCEPT !.instance = InstanceOf(init)]
            /\ UNCHANGED lifeVars

RequestDevice == RequestDeviceWith(Backends, DeviceQueries, BaseExts)

---------------------------------------------------------------------------
(* Feature contexts: super_resolution.rs, ray_reconstruction.rs            *)

Threads == {1, 2}
Kinds == {"SR", "RR"}
Modes == {"Auto", "Dlaa"}

\* UVec2 values: output resolutions, and what the optimal-settings query writes
Zero == <<0, 0>>
UpAll == (1..MaxRes) \X (1..MaxRes)
\* per component the query writes nothing (0), the smallest or the largest size
RtVals == {0, 1, MaxRes}
RtVecs == RtVals \X RtVals
RtAll == [optimal : RtVecs, min : RtVecs, max : RtVecs]
UpSmall == {<<MaxRes, MaxRes>>}
RtSmall == {[optimal |-> <<1, 1>>, min |-> <<1, 1>>, max |-> <<MaxRes, MaxRes>>]}

\* Option<T>: None is the empty sequence, Some(x) the sequence of x
NoneOpt == <<>>
Some(x) == <<x>>
unwrap_or(o, default) == IF o = NoneOpt THEN default ELSE o[1]
Map(o, F(_)) == IF o = NoneOpt THEN NoneOpt ELSE Some(F(o[1]))
\* [ .. ].into_iter().flatten() over an array of Options
RECURSIVE Flatten(_)
Flatten(opts) == IF opts = <<>> THEN <<>> ELSE Head(opts) \o Flatten(Tail(opts))

\* A TextureView is named by the texture it views.  The views of one
\* parameter record lie on textures of their own, or all on one texture.
Layouts == {"own", "shared"}
View(layout, field) == IF layout = "own" THEN field ELSE "shared"
OptView(present, layout, field) == IF present THEN Some(View(layout, field)) ELSE NoneOpt

\* Option<UVec2> values a caller passes as partial_texture_size
PartialSizes == {NoneOpt, Some(<<1, 1>>)}

\* DlssSuperResolutionRenderParameters (and DlssRenderParameters, which has
\* the same fields)
SrParams ==
    {[color |-> View(l, "color"), depth |-> View(l, "depth"),
      motion_vectors |-> View(l, "motion_vectors"),
      exposure |-> IF manual THEN [variant |-> "Manual", exposure |-> View(l, "exposure")]
                   ELSE [variant |-> "Automatic", exposure |-> "-"],
      bias |-> OptView(bias, l, "bias"),
      dlss_output |-> View(l, "dlss_output"),
      partial_texture_size |-> partial] :
        l \in Layouts, manual \in BOOLEAN, bias \in BOOLEAN, partial \in PartialSizes}

SpecularGuides == {"SpecularMotionVectors", "SpecularHitDistance"}

\* DlssRayReconstructionRenderParameters
RrParams ==
    {[diffuse_albedo |-> View(l, "diffuse_albedo"),
      specular_albedo |-> View(l, "specular_albedo"),
      normals |-> View(l, "normals"),
      roughness |-> OptView(roughness, l, "roughness"),
      color |-> View(l, "color"), depth |-> View(l, "depth"),
      motion_vectors |-> View(l, "motion_vectors"),
      specular_guide |-> [variant |-> guide, texture_view |-> View(l, "specular_guide")],
      screen_space_subsurface_scattering_guide |-> OptView(sss, l, "sss_guide"),
      bias |-> OptView(bias, l, "bias"),
      dlss_output |-> View(l, "dlss_output"),
      partial_texture_size |-> partial] :
        l \in Layouts, roughness \in BOOLEAN, guide \in SpecularGuides,
        sss \in BOOLEAN, bias \in BOOLEAN, partial \in PartialSizes}

\* one parameter record of each kind: no optional view, no partial size
SrPlain ==
    {p \in SrParams : /\ p.color = "color" /\ p.exposure.variant = "Automatic"
                      /\ p.bias = NoneOpt /\ p.partial_texture_size = NoneOpt}
RrPlain ==
    {p \in RrParams : /\ p.color = "color" /\ p.roughness = NoneOpt
                      /\ p.specular_guide.variant = "SpecularHitDistance"
                      /\ p.screen_space_subsurface_scattering_guide = NoneOpt
                      /\ p.bias = NoneOpt /\ p.partial_texture_size = NoneOpt}

\* resource_barrier: the texture of the view goes to the read state
resource_barrier(texture_view) == [texture |-> texture_view, state |-> "RESOURCE"]
\* the transition of the output texture
storage_barrier(texture_view) == [texture |-> texture_view, state |-> "STORAGE_READ_WRITE"]

\* DlssSuperResolutionRenderParameters::barrier_list with the exposure
\* texture given a barrier also when the exposure is Automatic
SrBarrierList_AlwaysExposure(p) ==
    Flatten(<<Some(resource_barrier(p.color)),
              Some(resource_barrier(p.depth)),
              Some(resource_barrier(p.motion_vectors)),
              Some(resource_barrier(p.exposure.exposure)),
              Map(p.bias, resource_barrier),
              Some(storage_barrier(p.dlss_output))>>)

\* DlssSuperResolutionRenderParameters::barrier_list
SrBarrierList(p) ==
    Flatten(<<Some(resource_barrier(p.color)),
              Some(resource_barrier(p.depth)),
              Some(resource_barrier(p.motion_vectors)),
              IF p.exposure.variant = "Manual"
              THEN Some(resource_barrier(p.exposure.exposure)) ELSE NoneOpt,
              Map(p.bias, resource_barrier),
              Some(storage_barrier(p.dlss_output))>>)

\* DlssRenderParameters::barrier_list (render_parameters.rs)
barrier_list(p) ==
    Flatten(<<Some(resource_barrier(p.color)),
              Some(resource_barrier(p.depth)),
              Some(resource_barrier(p.motion_vectors)),
              IF p.exposure.variant = "Manual"
              THEN Some(resource_barrier(p.exposure.exposure)) ELSE NoneOpt,
              Map(p.bias, resource_barrier),
              Some(storage_barrier(p.dlss_output))>>)

\* DlssRayReconstructionRenderParameters::barrier_list: both variants of the
\* specular guide carry a view
RrBarrierList(p) ==
    Flatten(<<Some(resource_barrier(p.diffuse_albedo)),
              Some(resource_barrier(p.specular_albedo)),
              Some(resource_barrier(p.normals)),
              Map(p.roughness, resource_barrier),
              Some(resource_barrier(p.color)),
              Some(resource_barrier(p.depth)),
              Some(resource_barrier(p.motion_vectors)),
              Some(resource_barrier(p.specular_guide.texture_view)),
              Map(p.screen_space_subsurface_scattering_guide, resource_barrier),
              Map(p.bias, resource_barrier),
              Some(storage_barrier(p.dlss_output))>>)

\* texture_to_ngx: the native descriptor of a view; a pointer to it is a
\* non-null slot, ptr::null_mut() an empty one
texture_to_ngx(texture_view) == [ImageViewInfo |-> texture_view]
Null == NoneOpt
Ptr(texture_view) == Some(texture_to_ngx(texture_view))

\* DlssSuperResolution::render: partial_texture_size and eval_params
SrEvalParams(c, p) ==
    LET partial_texture_size ==
            unwrap_or(p.partial_texture_size, c.max_render_resolution)
    IN  [InRenderSubrectDimensions |-> partial_texture_size,
         pInOutput |-> Ptr(p.dlss_output),
         inputs |->
            [pInColor |-> Ptr(p.color),
             pInDepth |-> Ptr(p.depth),
             pInMotionVectors |-> Ptr(p.motion_vectors),
             pInExposureTexture |->
                 IF p.exposure.variant = "Manual" THEN Ptr(p.exposure.exposure) ELSE Null,
             pInBiasCurrentColorMask |-> Map(p.bias, texture_to_ngx),
             pInTransparencyMask |-> Null,
             pInRayTracingHitDistance |-> Null,
             pInMotionVectorsReflections |-> Null]]

\* DlssRayReconstruction::render: partial_texture_size and eval_params
RrEvalParams(c, p) ==
    LET partial_texture_size ==
            unwrap_or(p.partial_texture_size, c.render_resolution)
    IN  [InRenderSubrectDimensions |-> partial_texture_size,
         pInOutput |-> Ptr(p.dlss_output),
         inputs |->
            [pInDiffuseAlbedo |-> Ptr(p.diffuse_albedo),
             pInSpecularAlbedo |-> Ptr(p.specular_albedo),
             pInNormals |-> Ptr(p.normals),
             pInRoughness |-> Map(p.roughness, texture_to_ngx),
             pInColor |-> Ptr(p.color),
             pInDepth |-> Ptr(p.depth),
             pInMotionVectors |-> Ptr(p.motion_vectors),
             pInExposureTexture |-> Null,
             pInBiasCurrentColorMask |-> Map(p.bias, texture_to_ngx),
             pInScreenSpaceSubsurfaceScatteringGuide |->
                 Map(p.screen_space_subsurface_scattering_guide, texture_to_ngx),
             pInSpecularHitDistance |->
                 IF p.specular_guide.variant = "SpecularMotionVectors" THEN Null
                 ELSE Ptr(p.specular_guide.texture_view),
             pInTransparencyMask |-> Null,
             pInRayTracingHitDistance |-> Null,
             pInMotionVectorsReflections |-> Null]]

EvalParams(c, p) == IF c.kind = "SR" THEN SrEvalParams(c, p) ELSE RrEvalParams(c, p)
BarrierList(kind, p) == IF kind = "SR" THEN SrBarrierList(p) ELSE RrBarrierList(p)

\* the commands an encoder or a command buffer holds
CreateCmd(h) == [cmd |-> "create", feature |-> h, barriers |-> <<>>]
TransitionCmd(bs) == [cmd |-> "transition_resources", feature |-> 0, barriers |-> bs]
EvaluateCmd(h) == [cmd |-> "evaluate", feature |-> h, barriers |-> <<>>]

\* RenderCommands recording the evaluation before the transitions
RenderCommands_EvaluateFirst(bs, h, ok) ==
    (IF ok THEN <<EvaluateCmd(h)>> ELSE <<>>) \o <<TransitionCmd(bs)>>

\* what one render call records in the caller's encoder:
\* command_encoder.transition_resources(.., barrier_list()), then the
\* evaluation, kept when the runtime reports success
RenderCommands(bs, h, ok) ==
    <<TransitionCmd(bs)>> \o (IF ok THEN <<EvaluateCmd(h)>> ELSE <<>>)

\* The inputs the callers and the runtime are drawn from in one specification.
\* one caller, one resolution, every backend and every status
OneCaller ==
    [kinds |-> Kinds, ups |-> UpSmall, modes |-> {"Auto"}, devs |-> Backends,
     rts |-> RtSmall, results |-> NgxResults, writes |-> BOOLEAN,
     params |-> [SR |-> SrPlain, RR |-> RrPlain]]
\* callers sharing one SDK: one resolution, one failure status
Sharing ==
    [kinds |-> Kinds, ups |-> UpSmall, modes |-> {"Auto"}, devs |-> Backends,
     rts |-> RtSmall, results |-> {NgxSuccess, "FAIL_OutOfDate"}, writes |-> {TRUE},
     params |-> [SR |-> SrPlain, RR |-> RrPlain]]
\* every output resolution, preset and answer of the optimal-settings query
AllResolutions ==
    [kinds |-> Kinds, ups |-> UpAll, modes |-> Modes, devs |-> {"Vulkan"},
     rts |-> RtAll, results |-> {NgxSuccess, "FAIL_OutOfDate"}, writes |-> {TRUE},
     params |-> [SR |-> SrPlain, RR |-> RrPlain]]

\* callers sharing one SDK, every device created by request_device
Serving ==
    [kinds |-> Kinds, ups |-> UpSmall, modes |-> {"Auto"}, devs |-> {"Vulkan"},
     rts |-> RtSmall, results |-> {NgxSuccess, "FAIL_OutOfDate"}, writes |-> {TRUE},
     params |-> [SR |-> SrPlain, RR |-> RrPlain]]

\* every record of render parameters, for contexts of one resolution
AllParams ==
    [kinds |-> Kinds, ups |-> UpSmall, modes |-> {"Auto"}, devs |-> {"Vulkan"},
     rts |-> RtSmall, results |-> {NgxSuccess, "FAIL_OutOfDate"}, writes |-> {TRUE},
     params |-> [SR |-> SrParams, RR |-> RrParams]]

NoParams == [InWidth |-> 0, InHeight |-> 0, InTargetWidth |-> 0, InTargetHeight |-> 0]

NoFrame ==
    [op |-> "none", kind |-> "SR", upscaled_resolution |-> Zero, mode |-> "Auto",
     device |-> "Vulkan", adapter |-> "Vulkan",
     optimal_render_resolution |-> Zero, min_render_resolution |-> Zero,
     max_render_resolution |-> Zero,
     written |-> [optimal |-> Zero, min |-> Zero, max |-> Zero],
     create_params |-> NoParams, feature |-> 0,
     params |-> <<>>, eval_params |-> <<>>, barriers |-> <<>>,
     jitter |-> <<>>,
     calls |-> <<>>, result |-> "none", status |-> NgxSuccess]

NoCtx ==
    [state |-> "none", kind |-> "SR", upscaled_resolution |-> Zero,
     min_render_resolution |-> Zero, max_render_resolution |-> Zero,
     render_resolution |-> Zero, device |-> "Vulkan", feature |-> 0]

\* One external call: its name, the status the runtime returned ("-" when
\* the call is not a runtime entry point) and whether the caller held the
\* SDK lock while making it.
Called(t, e) == [name |-> e[1], status |-> e[2], locked |-> (lock = t)]
Trace(t, es) == [i \in 1..Len(es) |-> Called(t, es[i])]
Names(cs) == [i \in 1..Len(cs) |-> cs[i].name]

\* as_hal::<Vulkan>() is Some only for an object of the Vulkan backend
\* device.as_hal::<Vulkan>().unwrap() / command_encoder.unwrap() in new
EncoderAsHal(backend) == backend = "Vulkan"
\* texture_to_ngx: adapter.as_hal::<Vulkan>().unwrap()
TextureToNgx(backend) == backend = "Vulkan"
\* self.device.as_hal::<Vulkan>().unwrap() in drop
DropDeviceAsHal(backend) == backend = "Vulkan"

\* Try going on whatever the status
Try_Always(r) == TRUE

\* check_ngx_result(..)?: the function goes on only after Ok
Try(r) == r.ok

\* WaitIdleExpect going on after a failed wait
WaitIdleExpect_Always(ok) == TRUE

\* device_wait_idle().expect(..): drop goes on only after Ok
WaitIdleExpect(ok) == ok

\* SrResolutions overriding only the optimal value for Dlaa
SrResolutions_OnlyOptimal(mode, upscaled, rt) ==
    IF mode = "Dlaa"
    THEN [optimal |-> upscaled, min |-> rt.min, max |-> rt.max]
    ELSE [optimal |-> rt.optimal, min |-> rt.min, max |-> rt.max]

\* DlssSuperResolution::new, the locals after the optimal-settings query and
\* the Dlaa override; rt is what the runtime wrote
SrResolutions(mode, upscaled, rt) ==
    IF mode = "Dlaa"
    THEN [optimal |-> upscaled, min |-> upscaled, max |-> upscaled]
    ELSE [optimal |-> rt.optimal, min |-> rt.min, max |-> rt.max]

\* DlssRayReconstruction::new, the same locals: only optimal is overridden
RrResolutions(mode, upscaled, rt) ==
    IF mode = "Dlaa"
    THEN [optimal |-> upscaled, min |-> rt.min, max |-> rt.max]
    ELSE [optimal |-> rt.optimal, min |-> rt.min, max |-> rt.max]

Resolutions(kind, mode, upscaled, rt) ==
    IF kind = "SR" THEN SrResolutions(mode, upscaled, rt)
    ELSE RrResolutions(mode, upscaled, rt)

\* the Feature part of NVSDK_NGX_DLSS(D)_Create_Params
CreateParams(optimal, upscaled) ==
    [InWidth |-> optimal[1], InHeight |-> optimal[2],
     InTargetWidth |-> upscaled[1], InTargetHeight |-> upscaled[2]]

\* SrContext holding another handle than the one CREATE_FEATURE wrote
SrContext_OtherHandle(f) ==
    [state |-> "alive", kind |-> "SR", upscaled_resolution |-> f.upscaled_resolution,
     min_render_resolution |-> f.min_render_resolution,
     max_render_resolution |-> f.max_render_resolution,
     render_resolution |-> Zero, device |-> f.device, feature |-> f.feature + 1]

\* Ok(Self { .. }) of DlssSuperResolution::new
SrContext(f) ==
    [state |-> "alive", kind |-> "SR", upscaled_resolution |-> f.upscaled_resolution,
     min_render_resolution |-> f.min_render_resolution,
     max_render_resolution |-> f.max_render_resolution,
     render_resolution |-> Zero, device |-> f.device, feature |-> f.feature]

\* Ok(Self { .. }) of DlssRayReconstruction::new
RrContext(f) ==
    [state |-> "alive", kind |-> "RR", upscaled_resolution |-> f.upscaled_resolution,
     min_render_resolution |-> Zero, max_render_resolution |-> Zero,
     render_resolution |-> f.optimal_render_resolution,
     device |-> f.device, feature |-> f.feature]

\* SrRenderResolution answering the upper end of the range
SrRenderResolution_Max(c) == c.max_render_resolution

\* the accessors
upscaled_resolution(c) == c.upscaled_resolution
SrRenderResolution(c) == c.min_render_resolution
RrRenderResolution(c) == c.render_resolution
render_resolution(c) ==
    IF c.kind = "SR" THEN SrRenderResolution(c) ELSE RrRenderResolution(c)
render_resolution_range(c) == <<c.min_render_resolution, c.max_render_resolution>>

\* LockFree letting a caller in while another holds the mutex
LockFree_Always(t) == TRUE

\* sdk.lock(): blocks while another caller holds the mutex
LockFree(t) == lock = 0

\* a panic unwinds the caller; a MutexGuard dropped while unwinding poisons
Panics(t, es) ==
    /\ pc' = [pc EXCEPT ![t] = "panicked"]
    /\ call' = [call EXCEPT ![t].result = "Panic",
                            ![t].calls = call[t].calls \o Trace(t, es)]
    /\ poisoned' = (poisoned \/ lock = t)
    /\ lock' = IF lock = t THEN 0 ELSE lock

\* Returns keeping the mutex locked when the call returns Err
Returns_KeepsLockOnErr(t, es, result, status) ==
    /\ pc' = [pc EXCEPT ![t] = "idle"]
    /\ call' = [call EXCEPT ![t].result = result, ![t].status = status,
                            ![t].calls = call[t].calls \o Trace(t, es)]
    /\ lock' = IF lock = t /\ result # "Err" THEN 0 ELSE lock
    /\ poisoned' = poisoned

\* the call returns: the MutexGuard local is dropped
Returns(t, es, result, status) ==
    /\ pc' = [pc EXCEPT ![t] = "idle"]
    /\ call' = [call EXCEPT ![t].result = result, ![t].status = status,
                            ![t].calls = call[t].calls \o Trace(t, es)]
    /\ lock' = IF lock = t THEN 0 ELSE lock
    /\ poisoned' = poisoned

\* let locked_sdk = sdk.lock().unwrap();
Acquire(t, to) ==
    /\ LockFree(t)
    /\ IF poisoned
       THEN /\ Panics(t, <<>>)
       ELSE /\ lock' = t
            /\ pc' = [pc EXCEPT ![t] = to]
            /\ UNCHANGED <<call, poisoned>>

\* new(upscaled_resolution, perf_quality_mode, .., sdk, device, queue)
NewStart(t, d) ==
    \E kind \in d.kinds, up \in d.ups, mode \in d.modes, dev \in d.devs :
        /\ pc[t] = "idle"
        /\ ctx[t].state # "alive"
        /\ pc' = [pc EXCEPT ![t] = "new_lock"]
        /\ call' = [call EXCEPT ![t] =
                [NoFrame EXCEPT !.op = "new", !.kind = kind, !.upscaled_resolution = up,
                                !.mode = mode, !.device = dev]]
        /\ UNCHANGED <<lock, poisoned, ctx, enc, queue, released, next_handle>>
        /\ UNCHANGED initVars

NewLock(t) ==
    /\ pc[t] = "new_lock"
    /\ Acquire(t, "new_query")
    /\ UNCHANGED <<ctx, enc, queue, released, next_handle>>
    /\ UNCHANGED initVars

\* NGX_DLSS(D)_GET_OPTIMAL_SETTINGS, the Dlaa override and create_params
NewQuery(t, d) ==
    \E status \in d.results, rt \in d.rts :
        LET f == call[t]
            r == check_ngx_result(status)
            res == Resolutions(f.kind, f.mode, f.upscaled_resolution, rt)
            query == <<"GET_OPTIMAL_SETTINGS", status>>
        IN  /\ pc[t] = "new_query"
            /\ IF ~Try(r)
               THEN Returns(t, <<query>>, "Err", r.status)
               ELSE /\ pc' = [pc EXCEPT ![t] = "new_create"]
                    /\ call' = [call EXCEPT
                          ![t].written = rt,
                          ![t].optimal_render_resolution = res.optimal,
                          ![t].min_render_resolution = res.min,
                          ![t].max_render_resolution = res.max,
                          ![t].create_params = CreateParams(res.optimal, f.upscaled_resolution),
                          ![t].calls = f.calls \o Trace(t, <<query>>)]
                    /\ UNCHANGED <<lock, poisoned>>
            /\ UNCHANGED <<ctx, enc, queue, released, next_handle>>
            /\ UNCHANGED initVars

\* device.create_command_encoder, the as_hal unwraps and NGX_VULKAN_CREATE_*:
\* on success the runtime may or may not write the handle
NewCreate(t, d) ==
    \E status \in d.results, writes \in d.writes :
        LET f == call[t]
            r == check_ngx_result(status)
            encoder == <<"create_command_encoder", "-">>
            create == <<"CREATE_FEATURE", status>>
        IN  /\ pc[t] = "new_create"
            /\ writes => next_handle <= MaxHandles
            /\ IF ~EncoderAsHal(f.device)
               THEN /\ Panics(t, <<encoder>>)
                    /\ UNCHANGED next_handle
               ELSE IF ~Try(r)
               THEN /\ Returns(t, <<encoder, create>>, "Err", r.status)
                    /\ UNCHANGED next_handle
               ELSE /\ pc' = [pc EXCEPT ![t] = "new_submit"]
                    /\ call' = [call EXCEPT
                          ![t].feature = IF writes THEN next_handle ELSE 0,
                          ![t].calls = f.calls \o Trace(t, <<encoder, create>>)]
                    /\ next_handle' = IF writes THEN next_handle + 1 ELSE next_handle
                    /\ UNCHANGED <<lock, poisoned>>
            /\ UNCHANGED <<ctx, enc, queue, released>>
            /\ UNCHANGED initVars

\* NewSubmit returning the context without submitting the encoder
NewSubmit_NoSubmit(t) ==
    LET f == call[t]
    IN  /\ pc[t] = "new_submit"
        /\ Len(queue) < MaxQueue
        /\ ctx' = [ctx EXCEPT ![t] = IF f.kind = "SR" THEN SrContext(f) ELSE RrContext(f)]
        /\ Returns(t, <<>>, "Ok", NgxSuccess)
        /\ UNCHANGED <<queue, enc, released, next_handle>>
        /\ UNCHANGED initVars

\* NewSubmit waiting until the device has executed what it submitted
NewSubmit_Waits(t) ==
    LET f == call[t]
    IN  /\ pc[t] = "new_submit"
        /\ Len(queue) < MaxQueue
        /\ queue' = <<>>
        /\ ctx' = [ctx EXCEPT ![t] = IF f.kind = "SR" THEN SrContext(f) ELSE RrContext(f)]
        /\ Returns(t, <<<<"queue_submit", "-">>>>, "Ok", NgxSuccess)
        /\ UNCHANGED <<enc, released, next_handle>>
        /\ UNCHANGED initVars

\* queue.submit([command_encoder.finish()]); Ok(Self { .. })
NewSubmit(t) ==
    LET f == call[t]
    IN  /\ pc[t] = "new_submit"
        /\ Len(queue) < MaxQueue
        /\ queue' = Append(queue, <<CreateCmd(f.feature)>>)
        /\ ctx' = [ctx EXCEPT ![t] = IF f.kind = "SR" THEN SrContext(f) ELSE RrContext(f)]
        /\ Returns(t, <<<<"queue_submit", "-">>>>, "Ok", NgxSuccess)
        /\ UNCHANGED <<enc, released, next_handle>>
        /\ UNCHANGED initVars

\* render(&mut self, render_parameters, command_encoder, adapter)
RenderStart(t, d) ==
    \E adapter \in d.devs, p \in d.params[ctx[t].kind] :
        /\ pc[t] = "idle"
        /\ ctx[t].state = "alive"
        /\ Len(enc[t]) < MaxEnc
        /\ pc' = [pc EXCEPT ![t] = "render_lock"]
        /\ call' = [call EXCEPT ![t] =
                [NoFrame EXCEPT !.op = "render", !.kind = ctx[t].kind,
                                !.adapter = adapter, !.feature = ctx[t].feature,
                                !.params = p]]
        /\ UNCHANGED <<lock, poisoned, ctx, enc, queue, released, next_handle>>
        /\ UNCHANGED initVars

RenderLock(t) ==
    /\ pc[t] = "render_lock"
    /\ Acquire(t, "render_params")
    /\ UNCHANGED <<ctx, enc, queue, released, next_handle>>
    /\ UNCHANGED initVars

\* partial_texture_size and eval_params: texture_to_ngx for every view given
RenderParams(t) ==
    LET f == call[t]
    IN  /\ pc[t] = "render_params"
        /\ IF ~TextureToNgx(f.adapter)
           THEN Panics(t, <<>>)
           ELSE /\ pc' = [pc EXCEPT ![t] = "render_eval"]
                /\ call' = [call EXCEPT ![t].eval_params = EvalParams(ctx[t], f.params)]
                /\ UNCHANGED <<lock, poisoned>>
        /\ UNCHANGED <<ctx, enc, queue, released, next_handle>>
        /\ UNCHANGED initVars

\* RenderCalls invoking the evaluation a second time when it failed
RenderCalls_RetriesOnError(status) ==
    <<<<"transition_resources", "-">>, <<"EVALUATE", status>>>>
        \o (IF status = NgxSuccess THEN <<>> ELSE <<<<"EVALUATE", status>>>>)

\* the external calls of render once eval_params is built: the transitions
\* and one NGX_VULKAN_EVALUATE_*, whose status is returned as it is
RenderCalls(status) == <<<<"transition_resources", "-">>, <<"EVALUATE", status>>>>

\* command_encoder.transition_resources(.., barrier_list()) and
\* NGX_VULKAN_EVALUATE_* on the caller's encoder
RenderEval(t, d) ==
    \E status \in d.results :
        LET f == call[t]
            r == check_ngx_result(status)
            bs == BarrierList(f.kind, f.params)
            es == RenderCalls(status)
        IN  /\ pc[t] = "render_eval"
            /\ Returns(t, es, IF Try(r) THEN "Ok" ELSE "Err", r.status)
            /\ enc' = [enc EXCEPT ![t] =
                          enc[t] \o RenderCommands(bs, ctx[t].feature, Try(r))]
            /\ UNCHANGED <<ctx, queue, released, next_handle>>
            /\ UNCHANGED initVars

\* the caller finishes the encoder it passed to render and submits it
Submit(t) ==
    /\ pc[t] = "idle"
    /\ enc[t] # <<>>
    /\ Len(queue) < MaxQueue
    /\ queue' = Append(queue, enc[t])
    /\ enc' = [enc EXCEPT ![t] = <<>>]
    /\ UNCHANGED <<lock, poisoned, pc, call, ctx, released, next_handle>>
    /\ UNCHANGED initVars

\* the GPU executes the oldest pending command buffer
GpuExec ==
    /\ queue # <<>>
    /\ queue' = Tail(queue)
    /\ UNCHANGED <<lock, poisoned, pc, call, ctx, enc, released, next_handle>>
    /\ UNCHANGED initVars

\* drop(&mut self): self.device.as_hal::<Vulkan>().unwrap()
DropStart(t) ==
    LET hal == DropDeviceAsHal(ctx[t].device)
    IN  /\ pc[t] = "idle"
        /\ ctx[t].state = "alive"
        /\ call' = [call EXCEPT ![t] =
                [NoFrame EXCEPT !.op = "drop", !.kind = ctx[t].kind,
                                !.device = ctx[t].device, !.feature = ctx[t].feature,
                                !.result = IF hal THEN "none" ELSE "Panic"]]
        /\ pc' = [pc EXCEPT ![t] = IF hal THEN "drop_wait" ELSE "panicked"]
        /\ ctx' = [ctx EXCEPT ![t].state = IF hal THEN "dropping" ELSE "leaked"]
        /\ UNCHANGED <<lock, poisoned, enc, queue, released, next_handle>>
        /\ UNCHANGED initVars

\* device_wait_idle().expect(..): returns Ok once nothing is pending, or Err
DropWaitIdle(t) ==
    \E ok \in BOOLEAN :
        LET wait == <<IF ok THEN "device_wait_idle_ok" ELSE "device_wait_idle_err", "-">>
        IN  /\ pc[t] = "drop_wait"
            /\ ok => queue = <<>>
            /\ IF WaitIdleExpect(ok)
               THEN /\ pc' = [pc EXCEPT ![t] = "drop_release"]
                    /\ call' = [call EXCEPT ![t].calls = call[t].calls \o Trace(t, <<wait>>)]
                    /\ UNCHANGED <<lock, poisoned, ctx>>
               ELSE /\ Panics(t, <<wait>>)
                    /\ ctx' = [ctx EXCEPT ![t].state = "leaked"]
            /\ UNCHANGED <<enc, queue, released, next_handle>>
            /\ UNCHANGED initVars

\* check_ngx_result(NVSDK_NGX_VULKAN_ReleaseFeature(self.feature)).expect(..)
DropRelease(t, d) ==
    \E status \in d.results :
        LET r == check_ngx_result(status)
            release == <<"ReleaseFeature", status>>
        IN  /\ pc[t] = "drop_release"
            /\ released' = released \cup {ctx[t].feature}
            /\ ctx' = [ctx EXCEPT ![t].state = "dropped"]
            /\ IF r.ok
               THEN Returns(t, <<release>>, "Ok", NgxSuccess)
               ELSE Panics(t, <<release>>)
            /\ UNCHANGED <<enc, queue, next_handle>>
            /\ UNCHANGED initVars

\* the minimum of DlssRayReconstruction::suggested_jitter
MinPhaseCount == 32

Max(a, b) == IF a >= b THEN a ELSE b

\* (8.0 * ratio * ratio) as u32 with ratio = upscaled.x as f32 / render.x as
\* f32, for a render width that is not 0: the cast truncates.  For the
\* widths of the model the f32 product is within rounding of the exact
\* quotient, and the quotient is an integer or at least 1 / MaxWidth^2 away
\* from one, so the truncation is that of the exact quotient.  (A render
\* width of 0 gives an infinite ratio and the cast saturates at u32::MAX.)
ScaledRatio(upscaled_width, render_width) ==
    (8 * upscaled_width * upscaled_width) \div (render_width * render_width)

\* SrPhaseCount with the minimum of 32 phases
SrPhaseCount_Min32(upscaled_width, render_width) ==
    Max(ScaledRatio(upscaled_width, render_width), MinPhaseCount)

\* phase_count of DlssSuperResolution::suggested_jitter
SrPhaseCount(upscaled_width, render_width) ==
    ScaledRatio(upscaled_width, render_width)

\* RrPhaseCount without the minimum of 32 phases
RrPhaseCount_NoMin(upscaled_width, render_width) ==
    ScaledRatio(upscaled_width, render_width)

\* phase_count of DlssRayReconstruction::suggested_jitter
RrPhaseCount(upscaled_width, render_width) ==
    Max(ScaledRatio(upscaled_width, render_width), MinPhaseCount)

\* halton_sequence(index, base): the radical inverse of index in that base,
\* as the fraction <<numerator, denominator>>
RECURSIVE halton_sequence(_, _)
halton_sequence(index, base) ==
    IF index = 0 THEN <<0, 1>>
    ELSE LET rest == halton_sequence(index \div base, base)
         IN  <<(index % base) * rest[2] + rest[1], rest[2] * base>>

\* h - 0.5 for the fraction h
MinusHalf(h) == <<2 * h[1] - h[2], 2 * h[2]>>

\* the body of suggested_jitter on a context of that kind and output width:
\* frame_number % phase_count panics when phase_count is 0
suggested_jitter(kind, upscaled_width, render_width, frame_number) ==
    LET phase_count == IF kind = "SR" THEN SrPhaseCount(upscaled_width, render_width)
                       ELSE RrPhaseCount(upscaled_width, render_width)
        i == IF phase_count = 0 THEN 0 ELSE frame_number % phase_count
    IN  [upscaled_width |-> upscaled_width,
         render_width |-> render_width,
         frame_number |-> frame_number,
         phase_count |-> phase_count,
         i |-> i,
         offset |-> IF phase_count = 0 THEN <<>>
                    ELSE <<MinusHalf(halton_sequence(i, 2)),
                           MinusHalf(halton_sequence(i, 3))>>]

\* suggested_jitter(frame_number, render_resolution) called on a context of
\* either kind
SuggestedJitter ==
    \E kind \in Kinds, upscaled_width \in 0..MaxWidth, render_width \in 1..MaxWidth,
       frame_number \in 0..MaxFrame :
        LET j == suggested_jitter(kind, upscaled_width, render_width, frame_number)
        IN  /\ pc[1] = "idle"
            /\ call' = [call EXCEPT ![1] =
                  [NoFrame EXCEPT
                      !.op = "suggested_jitter", !.kind = kind,
                      !.jitter = j,
                      !.result = IF j.phase_count = 0 THEN "Panic" ELSE "Ok"]]
            /\ UNCHANGED <<lock, poisoned, pc, ctx, enc, queue, released, next_handle>>
            /\ UNCHANGED initVars

\* the three parameter structs that have a barrier_list
ParamStructs ==
    {"DlssRenderParameters", "DlssSuperResolutionRenderParameters",
     "DlssRayReconstructionRenderParameters"}

ParamsOf(struct) ==
    IF struct = "DlssRayReconstructionRenderParameters" THEN RrParams ELSE SrParams

\* barrier_list() of one parameter record, collected
BarrierListOf ==
    \E struct \in ParamStructs :
        \E p \in ParamsOf(struct) :
            LET bs == IF struct = "DlssRenderParameters" THEN barrier_list(p)
                      ELSE IF struct = "DlssSuperResolutionRenderParameters"
                      THEN SrBarrierList(p)
                      ELSE RrBarrierList(p)
            IN  /\ pc[1] = "idle"
                /\ call' = [call EXCEPT ![1] =
                      [NoFrame EXCEPT !.op = "barrier_list", !.kind = struct,
                                      !.params = p, !.barriers = bs, !.result = "Ok"]]
                /\ UNCHANGED <<lock, poisoned, pc, ctx, enc, queue, released, next_handle>>
                /\ UNCHANGED initVars

---------------------------------------------------------------------------
(* Specifications.                                                         *)

InitInit ==
    /\ feature_support = [f \in Features |-> TRUE]
    /\ init = NoCall

\* a FeatureSupport the caller built by hand: both fields are pub
FeatureSupports == [Features -> BOOLEAN]

LifeInit ==
    /\ lock = 0
    /\ poisoned = FALSE
    /\ pc = [t \in Threads |-> "idle"]
    /\ call = [t \in Threads |-> NoFrame]
    /\ ctx = [t \in Threads |-> NoCtx]
    /\ enc = [t \in Threads |-> <<>>]
    /\ queue = <<>>
    /\ released = {}
    /\ next_handle = 1

Init == InitInit /\ LifeInit

\* the state before create_instance for a caller passing any FeatureSupport
CallerInit ==
    /\ feature_support \in FeatureSupports
    /\ init = NoCall
    /\ LifeInit

\* the negotiation at start-up
InitNext == CreateInstance \/ RequestDevice

InitSpec == Init /\ [][InitNext]_vars

\* create_instance and then request_device starting from any FeatureSupport
\* the caller passes, each feature requiring no extension or one
OneExt(queries) == {q \in queries : q.required \in {<<>>, <<"ext_a">>}}

NegotiationNext ==
    \/ CreateInstanceWith(OneExt(InstanceQueries), {<<>>})
    \/ RequestDeviceWith(Backends, OneExt(DeviceQueries), {<<>>})

NegotiationSpec == CallerInit /\ [][NegotiationNext]_vars

\* new and render of caller t
Creation(t, d) ==
    \/ NewStart(t, d)
    \/ NewLock(t)
    \/ NewQuery(t, d)
    \/ NewCreate(t, d)
    \/ NewSubmit(t)

Evaluation(t, d) ==
    \/ RenderStart(t, d)
    \/ RenderLock(t)
    \/ RenderParams(t)
    \/ RenderEval(t, d)

Destruction(t, d) ==
    \/ DropStart(t)
    \/ DropWaitIdle(t)
    \/ DropRelease(t, d)

\* request_device with the runtime answering every query "Success, no extension"
RequestDeviceOnce ==
    RequestDeviceWith(Backends, {[ngx |-> NgxSuccess, required |-> <<>>, enum_ok |-> TRUE]},
                      BaseExts)

\* one caller and the whole life of its contexts
Next ==
    \/ Creation(1, OneCaller)
    \/ Evaluation(1, OneCaller)
    \/ Submit(1)
    \/ Destruction(1, OneCaller)
    \/ GpuExec

Spec == Init /\ [][Next]_vars

\* one caller handing adapters and devices of either backend to every operation
BackendNext ==
    \/ RequestDeviceOnce
    \/ Creation(1, Sharing)
    \/ Evaluation(1, Sharing)
    \/ Destruction(1, Sharing)
    \/ GpuExec

BackendSpec == Init /\ [][BackendNext]_vars

\* two callers sharing one Arc<Mutex<DlssSdk>>, one device and one queue
SharedNext ==
    \/ \E t \in Threads : Creation(t, Sharing) \/ Evaluation(t, Sharing)
    \/ GpuExec

SharedSpec == Init /\ [][SharedNext]_vars

\* the same callers using Vulkan devices only, with a scheduler that lets a
\* running call take its next step and serves a caller blocked in lock()
FairNext ==
    \/ \E t \in Threads : Creation(t, Serving) \/ Evaluation(t, Serving)
    \/ GpuExec

CriticalStep(t) ==
    \/ NewQuery(t, Serving)
    \/ NewCreate(t, Serving)
    \/ NewSubmit(t)
    \/ RenderParams(t)
    \/ RenderEval(t, Serving)

Fairness ==
    /\ WF_vars(GpuExec)
    /\ \A t \in Threads :
          /\ WF_vars(CriticalStep(t))
          /\ SF_vars(NewLock(t) \/ RenderLock(t))

FairSharedSpec == Init /\ [][FairNext]_vars /\ Fairness

\* one caller, every output resolution and every answer of the runtime
CreateNext == Creation(1, AllResolutions) \/ Evaluation(1, AllResolutions)

CreateSpec == Init /\ [][CreateNext]_vars

\* the functions of the parameter records and the jitter helper, applied
\* to every input of the model
HelperNext == SuggestedJitter \/ BarrierListOf

HelperSpec == Init /\ [][HelperNext]_vars

\* one caller, every record of render parameters
RenderNext == Creation(1, AllParams) \/ Evaluation(1, AllParams)

RenderSpec == Init /\ [][RenderNext]_vars

---------------------------------------------------------------------------
(* Negotiation claims, checked under InitSpec.                             *)

Negotiated == init.op \in {"create_instance", "request_device"} /\ init.callback_ran
QueryError == \E f \in Features : init.outcome[f] = "error"
\* init_with_callback / open_with_callback and create_device_from_hal succeeded
NativeCreated == init.native_created /\ init.result # "RequestDeviceError"

\* C1: when a feature's requirement query answers "not satisfied", no query
\* fails and the underlying creation succeeds, create_instance / request_device
\* returns Ok with the instance / device, that feature's flag ends false and
\* the flag of a feature that was satisfied is what it was before the call.
C1_UnsupportedOnlyLowersFlag ==
    (Negotiated /\ ~QueryError /\ NativeCreated) =>
        /\ init.result = "Ok"
        /\ init.returned
        /\ \A f \in Features :
              feature_support[f] =
                  IF init.outcome[f] = "unsupported" THEN FALSE ELSE init.pre[f]

C1_Witness ==
    /\ init.op = "request_device"
    /\ init.pre = [f \in Features |-> TRUE]
    /\ init.outcome["super_resolution"] = "satisfied"
    /\ init.outcome["ray_reconstruction"] = "unsupported"
    /\ init.result = "Ok"
    /\ feature_support["super_resolution"]
    /\ ~feature_support["ray_reconstruction"]

\* C2: when the requirement query of any feature fails during negotiation,
\* create_instance / request_device returns Err and no instance / device,
\* whatever the other feature's query answered: the error of the first
\* feature survives a second query that succeeds or reports unsupported.
C2_QueryErrorFailsCreation ==
    (Negotiated /\ QueryError) =>
        /\ init.result \notin {"Ok", "none"}
        /\ ~init.returned
        /\ init.native_created => init.result \in {"DlssError", "VulkanError"}

C2_Witness ==
    /\ init.op = "create_instance"
    /\ init.outcome["super_resolution"] = "error"
    /\ init.outcome["ray_reconstruction"] = "satisfied"
    /\ init.native_created
    /\ init.result = "DlssError"
    /\ ~init.returned

---------------------------------------------------------------------------
(* Backend claims, checked under BackendSpec.                              *)

\* the finished or panicked call of caller t was handed a non-Vulkan object
WrongBackendCall(t) ==
    /\ pc[t] \in {"idle", "panicked"}
    /\ \/ call[t].op \in {"new", "drop"} /\ call[t].device # "Vulkan"
       \/ call[t].op = "render" /\ call[t].adapter # "Vulkan"

RuntimeCalls == {"GET_OPTIMAL_SETTINGS", "CREATE_FEATURE", "EVALUATE", "ReleaseFeature"}

\* C3: every operation handed a device or adapter that is not of the Vulkan
\* backend ends with the typed error UnsupportedBackend, never with a panic,
\* and has made no call into the runtime; request_device does so before the
\* negotiation callback runs and leaves FeatureSupport as it was.
C3_WrongBackendTypedError ==
    /\ (init.op = "request_device" /\ init.backend # "Vulkan") =>
          /\ init.result = "UnsupportedBackend"
          /\ ~init.callback_ran
          /\ feature_support = init.pre
    /\ \A t \in Threads :
          WrongBackendCall(t) =>
              /\ call[t].result = "UnsupportedBackend"
              /\ \A i \in 1..Len(call[t].calls) : call[t].calls[i].name \notin RuntimeCalls

---------------------------------------------------------------------------
(* Resolution claims, checked under CreateSpec.                            *)

Leq(a, b) == a[1] <= b[1] /\ a[2] <= b[2]

\* new of caller t has returned Ok: ctx[t] is the context it constructed
Created(t) == call[t].op = "new" /\ call[t].result = "Ok" /\ ctx[t].state = "alive"

\* C4: a context created with the Dlaa preset reports a render resolution
\* equal to the output resolution whatever the optimal-settings query wrote:
\* render_resolution() for both kinds, both ends of render_resolution_range()
\* for Super Resolution, and InWidth / InHeight of the create parameters.
C4_DlaaRendersAtOutput ==
    \A t \in Threads :
        (Created(t) /\ call[t].mode = "Dlaa") =>
            /\ render_resolution(ctx[t]) = upscaled_resolution(ctx[t])
            /\ ctx[t].kind = "SR" =>
                  render_resolution_range(ctx[t]) =
                      <<upscaled_resolution(ctx[t]), upscaled_resolution(ctx[t])>>
            /\ call[t].create_params.InWidth = call[t].upscaled_resolution[1]
            /\ call[t].create_params.InHeight = call[t].upscaled_resolution[2]
            /\ upscaled_resolution(ctx[t]) = call[t].upscaled_resolution

C4_Witness ==
    /\ Created(1)
    /\ call[1].kind = "SR"
    /\ call[1].mode = "Dlaa"
    /\ call[1].upscaled_resolution = <<MaxRes, 1>>
    /\ call[1].written.min = <<1, MaxRes>>
    /\ call[1].written.max = <<0, 0>>
    /\ render_resolution(ctx[1]) = <<MaxRes, 1>>

\* C5 as stated: every live context has render_resolution() and, for Super
\* Resolution, both ends of render_resolution_range() at most the output
\* resolution in x and in y, whatever the optimal-settings query wrote.
C5_RenderAtMostOutput ==
    \A t \in Threads :
        ctx[t].state = "alive" =>
            /\ Leq(render_resolution(ctx[t]), upscaled_resolution(ctx[t]))
            /\ ctx[t].kind = "SR" =>
                  /\ Leq(render_resolution_range(ctx[t])[1], upscaled_resolution(ctx[t]))
                  /\ Leq(render_resolution_range(ctx[t])[2], upscaled_resolution(ctx[t]))

\* C5 (amended): for a preset other than Dlaa a context exposes exactly what
\* the optimal-settings query wrote, unclamped: Super Resolution answers the
\* written minimum as render_resolution() and (minimum, maximum) as the
\* range, Ray Reconstruction answers the written optimum.  The exposed values
\* are therefore at most the output resolution exactly when the written ones are.
C5_ExposesWhatRuntimeWrote ==
    \A t \in Threads :
        (Created(t) /\ call[t].mode # "Dlaa") =>
            /\ ctx[t].kind = "SR" =>
                  /\ render_resolution(ctx[t]) = call[t].written.min
                  /\ render_resolution_range(ctx[t]) =
                        <<call[t].written.min, call[t].written.max>>
            /\ ctx[t].kind = "RR" =>
                  render_resolution(ctx[t]) = call[t].written.optimal
            /\ Leq(render_resolution(ctx[t]), upscaled_resolution(ctx[t])) <=>
                  Leq(IF ctx[t].kind = "SR" THEN call[t].written.min
                      ELSE call[t].written.optimal,
                      call[t].upscaled_resolution)

C5_Witness ==
    /\ Created(1)
    /\ call[1].kind = "SR"
    /\ call[1].mode = "Auto"
    /\ call[1].upscaled_resolution = <<1, 1>>
    /\ call[1].written.min = <<MaxRes, MaxRes>>
    /\ render_resolution(ctx[1]) = <<MaxRes, MaxRes>>
    /\ ~Leq(render_resolution(ctx[1]), upscaled_resolution(ctx[1]))


---------------------------------------------------------------------------
(* Destruction claims, checked under Spec.                                 *)

\* the external calls a drop may have made so far, in order
DropTraces ==
    {<<>>, <<"device_wait_idle_ok">>, <<"device_wait_idle_err">>,
     <<"device_wait_idle_ok", "ReleaseFeature">>}

\* caller t calls ReleaseFeature in this step
Releases(t) ==
    /\ Len(call'[t].calls) = Len(call[t].calls) + 1
    /\ call'[t].calls[Len(call'[t].calls)].name = "ReleaseFeature"

\* C6: a drop calls device_wait_idle first and ReleaseFeature only after
\* that wait returned Ok; it never calls ReleaseFeature after a failed wait,
\* and a context is released at most once: the release is the step that
\* takes a context not yet released (dropping) to dropped, on its own handle.
C6_WaitIdleBeforeRelease ==
    /\ [](\A t \in Threads : call[t].op = "drop" => Names(call[t].calls) \in DropTraces)
    /\ [][\A t \in Threads :
            Releases(t) =>
                /\ call[t].op = "drop"
                /\ Names(call[t].calls) = <<"device_wait_idle_ok">>
                /\ ctx[t].state = "dropping"
                /\ ctx'[t].state = "dropped"
                /\ released' = released \cup {ctx[t].feature}]_vars

C6_Witness ==
    /\ call[1].op = "drop"
    /\ Names(call[1].calls) = <<"device_wait_idle_ok", "ReleaseFeature">>
    /\ call[1].result = "Ok"
    /\ ctx[1].state = "dropped"
    /\ ctx[1].feature \in released

\* C7: no evaluation command that references a released native handle is
\* pending on the queue, whether it was submitted before the drop or was
\* recorded by render, left unsubmitted at the drop and submitted afterwards.
C7_NoEvaluationAfterRelease ==
    \A i \in 1..Len(queue) :
        \A j \in 1..Len(queue[i]) :
            (queue[i][j].cmd = "evaluate" /\ queue[i][j].feature # 0) =>
                queue[i][j].feature \notin released

\* C10: when GET_OPTIMAL_SETTINGS or CREATE_FEATURE answers a failure status,
\* it is the last call new makes: new returns Err carrying that status,
\* nothing is submitted, CREATE_FEATURE is not invoked after a failed query,
\* and no context exists, so no wait or release follows for that attempt.
C10_FailedCreationLeavesNothing ==
    \A t \in Threads :
        \A i \in 1..Len(call[t].calls) :
            (/\ call[t].op = "new"
             /\ call[t].calls[i].name \in {"GET_OPTIMAL_SETTINGS", "CREATE_FEATURE"}
             /\ call[t].calls[i].status # NgxSuccess) =>
                /\ i = Len(call[t].calls)
                /\ pc[t] = "idle"
                /\ call[t].result = "Err"
                /\ call[t].status = call[t].calls[i].status
                /\ \A j \in 1..Len(call[t].calls) :
                      call[t].calls[j].name \notin
                          {"queue_submit", "device_wait_idle_ok",
                           "device_wait_idle_err", "ReleaseFeature"}
                /\ ctx[t].state \notin {"alive", "dropping"}

C10_Witness ==
    /\ call[1].op = "new"
    /\ Names(call[1].calls) = <<"GET_OPTIMAL_SETTINGS", "create_command_encoder", "CREATE_FEATURE">>
    /\ call[1].calls[3].status = "FAIL_OutOfDate"
    /\ call[1].result = "Err"
    /\ call[1].status = "FAIL_OutOfDate"
    /\ ctx[1].state = "none"
    /\ queue = <<>>

---------------------------------------------------------------------------
(* Locking claims, checked under SharedSpec and FairSharedSpec.            *)

\* caller t is between lock() and the return of new / render
InCritical(t) ==
    pc[t] \in {"new_query", "new_create", "new_submit", "render_params", "render_eval"}
\* caller t is blocked in, or about to call, lock()
Waiting(t) == pc[t] \in {"new_lock", "render_lock"}

\* C8: at most one new or render is inside its critical section at a time,
\* it is the holder of the SDK lock, and every GET_OPTIMAL_SETTINGS,
\* CREATE_FEATURE and EVALUATE call was made by a caller holding the lock.
C8_RuntimeCallsSerialised ==
    /\ \A t, u \in Threads : (InCritical(t) /\ InCritical(u)) => t = u
    /\ \A t \in Threads : InCritical(t) => lock = t
    /\ \A t \in Threads :
          \A i \in 1..Len(call[t].calls) :
              call[t].calls[i].name \in {"GET_OPTIMAL_SETTINGS", "CREATE_FEATURE", "EVALUATE"}
                  => call[t].calls[i].locked

C8_Witness ==
    /\ pc[1] = "render_eval"
    /\ lock = 1
    /\ pc[2] = "render_lock"
    /\ ctx[1].feature # ctx[2].feature

---------------------------------------------------------------------------
(* Creation submission claims, checked under Spec.                         *)

\* the external calls of a new that got as far as returning Ok
NewTrace ==
    <<"GET_OPTIMAL_SETTINGS", "create_command_encoder", "CREATE_FEATURE", "queue_submit">>

\* the command buffer new submits for handle h
CreationBuffer(h) == <<CreateCmd(h)>>

\* caller t returns Ok from new in this step
NewReturnsOk(t) == pc[t] = "new_submit" /\ pc'[t] = "idle" /\ call'[t].result = "Ok"

\* C11: a successful new opens one command encoder, records CREATE_FEATURE
\* in it and submits it once, in this order and before it returns; no
\* evaluation of a handle is recorded or queued while its new is still
\* running, and on the queue no creation buffer of a handle lies behind an
\* evaluation of that handle.
C11_CreationSubmittedFirst ==
    /\ [](\A t \in Threads :
            (call[t].op = "new" /\ call[t].result = "Ok") =>
                Names(call[t].calls) = NewTrace)
    /\ [](\A t \in Threads :
            (call[t].op = "new" /\ pc[t] # "idle" /\ call[t].feature # 0) =>
                /\ \A j \in 1..Len(enc[t]) : enc[t][j].feature # call[t].feature
                /\ \A i \in 1..Len(queue) : \A j \in 1..Len(queue[i]) :
                      queue[i][j].cmd = "evaluate" =>
                          queue[i][j].feature # call[t].feature)
    /\ [](\A i, k \in 1..Len(queue) :
            \A j \in 1..Len(queue[i]) : \A l \in 1..Len(queue[k]) :
                (/\ queue[i][j].cmd = "evaluate"
                 /\ queue[k][l].cmd = "create"
                 /\ queue[i][j].feature # 0
                 /\ queue[k][l].feature = queue[i][j].feature) => k < i)
    /\ [][\A t \in Threads :
            NewReturnsOk(t) => queue' = Append(queue, CreationBuffer(call[t].feature))]_vars

C11_Witness ==
    /\ ctx[1].state = "alive"
    /\ ctx[1].feature # 0
    /\ Len(queue) = 2
    /\ queue[1] = CreationBuffer(ctx[1].feature)
    /\ \E j \in 1..Len(queue[2]) :
          queue[2][j].cmd = "evaluate" /\ queue[2][j].feature = ctx[1].feature

\* C12 as stated: when new has returned a context, the work of its creation
\* submission has completed: no creation buffer is pending on the queue.
C12_CreationWaitedOn ==
    \A t \in Threads :
        (call[t].op = "new" /\ call[t].result = "Ok" /\ pc[t] = "idle") =>
            \A i \in 1..Len(queue) : queue[i] # CreationBuffer(call[t].feature)

\* C12 (amended): new submits exactly one creation command buffer and
\* returns without waiting for it: in the step in which new returns Ok the
\* buffer is the newest entry of the queue, still pending, and new makes no
\* call that waits for the device or the queue.
C12_CreationSubmittedNotAwaited ==
    /\ [](\A t \in Threads :
            call[t].op = "new" =>
                /\ Cardinality({i \in 1..Len(call[t].calls) :
                                   call[t].calls[i].name = "queue_submit"})
                       = IF call[t].result = "Ok" THEN 1 ELSE 0
                /\ \A i \in 1..Len(call[t].calls) :
                      call[t].calls[i].name \notin
                          {"device_wait_idle_ok", "device_wait_idle_err"})
    /\ [][\A t \in Threads :
            NewReturnsOk(t) =>
                /\ Len(queue') = Len(queue) + 1
                /\ queue'[Len(queue')] = CreationBuffer(call'[t].feature)
                /\ ctx'[t].state = "alive"]_vars

C12_Witness ==
    /\ call[1].op = "new"
    /\ call[1].result = "Ok"
    /\ pc[1] = "idle"
    /\ ctx[1].state = "alive"
    /\ queue = <<CreationBuffer(ctx[1].feature)>>


---------------------------------------------------------------------------
(* Evaluation claims, checked under RenderSpec and Spec.                   *)

\* render of caller t has built its eval_params
Evaluating(t) == call[t].op = "render" /\ call[t].eval_params # <<>>

\* C13: the subrect dimensions passed to the runtime are the caller's
\* partial_texture_size when it is Some, and otherwise the resolution
\* render_resolution() tells the caller to render at, for both kinds.
C13_SubrectIsPartialOrRenderResolution ==
    \A t \in Threads :
        Evaluating(t) =>
            call[t].eval_params.InRenderSubrectDimensions =
                unwrap_or(call[t].params.partial_texture_size, render_resolution(ctx[t]))

\* the views a parameter record supplies as inputs
SuppliedInputs(kind, p) ==
    IF kind = "SR"
    THEN {p.color, p.depth, p.motion_vectors}
         \cup (IF p.exposure.variant = "Manual" THEN {p.exposure.exposure} ELSE {})
         \cup Range(p.bias)
    ELSE {p.diffuse_albedo, p.specular_albedo, p.normals, p.color, p.depth,
          p.motion_vectors, p.specular_guide.texture_view}
         \cup Range(p.roughness)
         \cup Range(p.screen_space_subsurface_scattering_guide)
         \cup Range(p.bias)

\* the views the runtime is given in the input slots of eval_params
PassedInputs(e) ==
    {e.inputs[slot][1].ImageViewInfo : slot \in {sl \in DOMAIN e.inputs : e.inputs[sl] # Null}}

\* the transitions of the last render call recorded in caller t's encoder
LastBarriers(t) ==
    LET at == {j \in 1..Len(enc[t]) : enc[t][j].cmd = "transition_resources"}
    IN  enc[t][CHOOSE j \in at : \A k \in at : k <= j].barriers

ReadBarriers(bs) == {bs[j].texture : j \in {k \in 1..Len(bs) : bs[k].state = "RESOURCE"}}

\* C19: every view the caller supplies is passed to the runtime in a
\* non-null slot and every optional view left out is a null slot, so the
\* input views that get a read barrier are the input views the runtime is
\* given, also for both variants of the specular guide.
C19_SuppliedViewsArePassed ==
    \A t \in Threads :
        (Evaluating(t) /\ pc[t] = "idle") =>
            /\ PassedInputs(call[t].eval_params) = SuppliedInputs(call[t].kind, call[t].params)
            /\ PassedInputs(call[t].eval_params) = ReadBarriers(LastBarriers(t))
            /\ call[t].eval_params.pInOutput = Ptr(call[t].params.dlss_output)

\* the commands one render call leaves in an encoder, by its result
IsRenderGroup(cs, j) ==
    /\ cs[j].cmd = "transition_resources"
    /\ cs[j].barriers # <<>>
    /\ \A k \in 1..Len(cs[j].barriers) :
          cs[j].barriers[k].state =
              IF k = Len(cs[j].barriers) THEN "STORAGE_READ_WRITE" ELSE "RESOURCE"

\* C20: a render call records the transitions of barrier_list, inputs to
\* the read state and the output last to the read-write storage state, and
\* then the evaluation, in the caller's encoder: an evaluation is always
\* directly preceded by the transitions of its call.  render creates no
\* command encoder and submits nothing: its steps leave the queue as it is.
C20_BarriersThenEvaluate ==
    /\ [](\A t \in Threads : \A j \in 1..Len(enc[t]) :
            /\ enc[t][j].cmd \in {"transition_resources", "evaluate"}
            /\ enc[t][j].cmd = "transition_resources" => IsRenderGroup(enc[t], j)
            /\ enc[t][j].cmd = "evaluate" => (j > 1 /\ IsRenderGroup(enc[t], j - 1)))
    /\ [](\A t \in Threads :
            call[t].op = "render" =>
                Names(call[t].calls) \in {<<>>, <<"transition_resources", "EVALUATE">>})
    /\ [][\A t \in Threads :
            (call[t].op = "render" /\ pc[t] # "idle") =>
                /\ queue' = queue \/ queue' = Tail(queue)
                /\ \A u \in Threads \ {t} : enc'[u] = enc[u]
                /\ (call'[t].result = "Ok" /\ pc'[t] = "idle") =>
                      /\ Len(enc'[t]) = Len(enc[t]) + 2
                      /\ enc'[t][Len(enc'[t])] = EvaluateCmd(ctx[t].feature)
                      /\ enc'[t][Len(enc'[t]) - 1] =
                            TransitionCmd(BarrierList(call[t].kind, call[t].params))]_vars

C20_Witness ==
    /\ call[1].op = "render"
    /\ call[1].result = "Ok"
    /\ pc[1] = "idle"
    /\ Len(enc[1]) = 2
    /\ enc[1][1].cmd = "transition_resources"
    /\ enc[1][2] = EvaluateCmd(ctx[1].feature)
    /\ queue # <<>>

---------------------------------------------------------------------------
(* Claims on the helper functions, checked under HelperSpec.               *)

\* q is the integer part of 8 * (upscaled_width / render_width)^2
IsFloorOfScaledRatio(q, j) ==
    /\ q * j.render_width * j.render_width <= 8 * j.upscaled_width * j.upscaled_width
    /\ 8 * j.upscaled_width * j.upscaled_width < (q + 1) * j.render_width * j.render_width

\* C14 as stated: the phase count is max(32, floor(8 * ratio^2)) for
\* DlssSuperResolution and floor(8 * ratio^2) for DlssRayReconstruction.
C14_PhaseCountAsStated ==
    call[1].op = "suggested_jitter" =>
        \E q \in 0..(8 * MaxWidth * MaxWidth) :
            /\ IsFloorOfScaledRatio(q, call[1].jitter)
            /\ call[1].jitter.phase_count =
                   IF call[1].kind = "SR" THEN Max(MinPhaseCount, q) ELSE q

\* C14 (amended): the phase count is floor(8 * ratio^2) with no minimum for
\* DlssSuperResolution, whose suggested_jitter panics when that is 0, and
\* max(32, floor(8 * ratio^2)) for DlssRayReconstruction; the jitter index
\* is frame_number mod phase_count.
C14_PhaseCountSwapped ==
    call[1].op = "suggested_jitter" =>
        \E q \in 0..(8 * MaxWidth * MaxWidth) :
            /\ IsFloorOfScaledRatio(q, call[1].jitter)
            /\ call[1].jitter.phase_count =
                   IF call[1].kind = "SR" THEN q ELSE Max(MinPhaseCount, q)
            /\ (call[1].result = "Panic") <=> (call[1].kind = "SR" /\ q = 0)
            /\ call[1].result = "Ok" =>
                  /\ call[1].jitter.i < call[1].jitter.phase_count
                  /\ \E n \in 0..MaxFrame :
                        call[1].jitter.frame_number =
                            n * call[1].jitter.phase_count + call[1].jitter.i

C14_Witness ==
    /\ call[1].op = "suggested_jitter"
    /\ call[1].kind = "SR"
    /\ call[1].jitter.upscaled_width = call[1].jitter.render_width
    /\ call[1].jitter.frame_number = 8
    /\ call[1].jitter.phase_count = 8
    /\ call[1].jitter.i = 0

\* the number of input views a parameter record supplies
InputCount(struct, p) ==
    IF struct = "DlssRayReconstructionRenderParameters"
    THEN 7 + Len(p.roughness) + Len(p.screen_space_subsurface_scattering_guide)
           + Len(p.bias)
    ELSE 3 + (IF p.exposure.variant = "Manual" THEN 1 ELSE 0) + Len(p.bias)

CountState(bs, state) == Cardinality({k \in 1..Len(bs) : bs[k].state = state})

\* C18: barrier_list yields exactly one STORAGE_READ_WRITE transition, for
\* the dlss_output texture and last, and exactly one RESOURCE transition for
\* every input view supplied: an absent optional view yields none, and
\* views of one texture yield one transition each.
C18_BarrierListCounts ==
    call[1].op = "barrier_list" =>
        LET bs == call[1].barriers
            n == InputCount(call[1].kind, call[1].params)
        IN  /\ Len(bs) = n + 1
            /\ CountState(bs, "RESOURCE") = n
            /\ CountState(bs, "STORAGE_READ_WRITE") = 1
            /\ bs[Len(bs)] = storage_barrier(call[1].params.dlss_output)

C18_Witness ==
    /\ call[1].op = "barrier_list"
    /\ call[1].kind = "DlssRayReconstructionRenderParameters"
    /\ call[1].params.color = "shared"
    /\ call[1].params.roughness = Some("shared")
    /\ call[1].params.bias = NoneOpt
    /\ call[1].params.specular_guide.variant = "SpecularMotionVectors"
    /\ Len(call[1].barriers) = 10
    /\ \A k \in 1..Len(call[1].barriers) : call[1].barriers[k].texture = "shared"


---------------------------------------------------------------------------
(* The native handle, checked under Spec.                                  *)

\* the context of caller t exists: it was returned by new and not yet destroyed
Exists(t) == ctx[t].state \in {"alive", "dropping"}

\* C15 as stated: every context returned by new holds a non-null handle,
\* also when CREATE_FEATURE reports success without writing one.
C15_HandleNonNull ==
    \A t \in Threads : Exists(t) => ctx[t].feature # 0

\* C15 (amended): a context holds what CREATE_FEATURE wrote into the handle,
\* which stays null when the runtime reports success without writing it;
\* the handle is unchanged while the context exists; a handle is given to
\* ReleaseFeature only by the drop of its context, and no existing context
\* holds a non-null handle that has been released.
C15_HandleIsWhatRuntimeWrote ==
    /\ [](\A t \in Threads : Created(t) => ctx[t].feature = call[t].feature)
    /\ [](\A t \in Threads :
            (Exists(t) /\ ctx[t].feature # 0) => ctx[t].feature \notin released)
    /\ [][\A t \in Threads :
            Exists(t) => ctx'[t].feature = ctx[t].feature]_vars
    /\ [][released' # released =>
            \E t \in Threads :
                /\ pc[t] = "drop_release"
                /\ ctx[t].state = "dropping"
                /\ released' = released \cup {ctx[t].feature}]_vars

C15_Witness ==
    /\ Created(1)
    /\ pc[1] = "idle"
    /\ Names(call[1].calls) = NewTrace
    /\ call[1].calls[3].status = NgxSuccess
    /\ ctx[1].feature = 0

---------------------------------------------------------------------------
(* Further negotiation claims, checked under InitSpec.                     *)

\* C16 as stated: after a failing query the creation is aborted: the native
\* instance / device is not created and the remaining feature is not
\* negotiated; the outer call returns the error.
C16_CreationAbortedAtFailure ==
    (Negotiated /\ init.outcome["super_resolution"] = "error") =>
        /\ ~init.native_created
        /\ init.outcome["ray_reconstruction"] = "not_queried"
        /\ feature_support["ray_reconstruction"] = init.pre["ray_reconstruction"]
        /\ init.result \notin {"Ok", "none"}

\* C16 (amended): a failing query only stores its error: the callback goes
\* on to negotiate the remaining feature, whose flag is cleared or whose
\* extensions are appended as usual, and the native creation goes on after
\* the callback; the outer call then returns the error, or the error of
\* the native creation if that failed, and no instance / device.
C16_ErrorSurfacesAfterCreation ==
    (Negotiated /\ init.outcome["super_resolution"] = "error") =>
        /\ init.outcome["ray_reconstruction"] # "not_queried"
        /\ init.outcome["ray_reconstruction"] = "unsupported" =>
              ~feature_support["ray_reconstruction"]
        /\ init.outcome["ray_reconstruction"] = "satisfied" =>
              /\ init.extensions = init.base \o init.required["ray_reconstruction"]
              /\ feature_support["ray_reconstruction"] = init.pre["ray_reconstruction"]
        /\ feature_support["super_resolution"] = init.pre["super_resolution"]
        /\ ~init.returned
        /\ init.result \in
              IF init.native_created THEN {"DlssError", "VulkanError"}
              ELSE {"InstanceError", "DeviceError"}

C16_Witness ==
    /\ init.op = "create_instance"
    /\ init.pre = [f \in Features |-> TRUE]
    /\ init.outcome["super_resolution"] = "error"
    /\ init.outcome["ray_reconstruction"] = "unsupported"
    /\ init.native_created
    /\ init.result = "DlssError"
    /\ ~feature_support["ray_reconstruction"]

\* the extensions the callback appends for feature f
Appended(f) == IF init.outcome[f] = "satisfied" THEN init.required[f] ELSE <<>>

\* C17: the extensions passed on to the real creation call are those the
\* list held before the callback, followed by the required extensions of
\* Super Resolution if its query was satisfied and by those of Ray
\* Reconstruction if its query was satisfied; nothing is appended for an
\* unsupported feature or a failed query.
C17_SatisfiedExtensionsAppended ==
    Negotiated =>
        init.extensions =
            init.base \o Appended("super_resolution") \o Appended("ray_reconstruction")

C17_Witness ==
    /\ Negotiated
    /\ init.base = <<"ext_base">>
    /\ init.outcome["super_resolution"] = "satisfied"
    /\ init.required["super_resolution"] = <<"ext_a">>
    /\ init.outcome["ray_reconstruction"] = "unsupported"
    /\ init.required["ray_reconstruction"] = <<"ext_b">>
    /\ init.extensions = <<"ext_base", "ext_a">>

---------------------------------------------------------------------------
(* The flags across both negotiations, checked under NegotiationSpec.      *)

\* no field of feature_support goes from false to true in this step
FlagsOnlyLowered == \A f \in Features : feature_support'[f] => feature_support[f]

\* request_device ran its callback on an adapter of an instance whose
\* create_instance ran its callback, and none of the four queries failed
BothNegotiated ==
    /\ init.op = "request_device"
    /\ init.callback_ran
    /\ init.instance # <<>>
    /\ \A f \in Features :
          /\ init.instance[1].outcome[f] \in {"satisfied", "unsupported"}
          /\ init.outcome[f] \in {"satisfied", "unsupported"}

\* C21: no step of create_instance or request_device sets a flag of
\* feature_support from false to true; and once create_instance and then
\* request_device have negotiated without a query error, the flag of each
\* feature is true exactly when it was true before create_instance and the
\* feature's requirements were satisfied at instance scope and at device scope.
C21_FlagsOnlyLowered ==
    /\ [][FlagsOnlyLowered]_vars
    /\ [](BothNegotiated =>
            \A f \in Features :
                feature_support[f] <=>
                    /\ init.instance[1].pre[f]
                    /\ init.instance[1].outcome[f] = "satisfied"
                    /\ init.outcome[f] = "satisfied")

C21_Witness ==
    /\ BothNegotiated
    /\ ~init.instance[1].pre["super_resolution"]
    /\ init.instance[1].pre["ray_reconstruction"]
    /\ \A f \in Features :
          init.instance[1].outcome[f] = "satisfied" /\ init.outcome[f] = "satisfied"
    /\ ~feature_support["super_resolution"]
    /\ feature_support["ray_reconstruction"]

---------------------------------------------------------------------------
(* The render resolution of Super Resolution, checked under CreateSpec.    *)

\* C22: for a Super Resolution context that new returned, render_resolution()
\* is the optimal render resolution of its creation, that is InWidth x
\* InHeight of the create parameters given to the runtime, and it lies
\* between the two ends of render_resolution_range().
C22_RenderResolutionIsOptimal ==
    \A t \in Threads :
        (Created(t) /\ ctx[t].kind = "SR") =>
            /\ render_resolution(ctx[t]) = call[t].optimal_render_resolution
            /\ render_resolution(ctx[t]) =
                  <<call[t].create_params.InWidth, call[t].create_params.InHeight>>
            /\ Leq(render_resolution_range(ctx[t])[1], render_resolution(ctx[t]))
            /\ Leq(render_resolution(ctx[t]), render_resolution_range(ctx[t])[2])

---------------------------------------------------------------------------
(* Device extensions of a feature already unsupported, under InitSpec.     *)

\* what the device callback appends for f if it skips a feature whose flag
\* was false when request_device started
AppendedIfSupported(f) == IF init.pre[f] THEN Appended(f) ELSE <<>>

\* C23: request_device appends the device extensions of a feature only if
\* the feature's flag was still true when request_device started: for a
\* feature whose flag was already false nothing is appended.
C23_NoExtensionsForUnsupported ==
    (init.op = "request_device" /\ init.callback_ran) =>
        init.extensions =
            init.base \o AppendedIfSupported("super_resolution")
                      \o AppendedIfSupported("ray_reconstruction")

---------------------------------------------------------------------------
(* The jitter index, checked under HelperSpec.                             *)

\* the render width is at least 1 and at most the output width
RenderWithinOutput(j) == 1 <= j.render_width /\ j.render_width <= j.upscaled_width

\* C24: for a render width between 1 and the output width suggested_jitter
\* does not divide by zero: the phase count is at least 8 for Super
\* Resolution and at least 32 for Ray Reconstruction, the index is
\* frame_number mod phase_count and lies in 0..phase_count-1, and the call
\* for frame_number + phase_count returns the same offset.
C24_JitterDefinedAndPeriodic ==
    (call[1].op = "suggested_jitter" /\ RenderWithinOutput(call[1].jitter)) =>
        LET j == call[1].jitter
            later == suggested_jitter(call[1].kind, j.upscaled_width, j.render_width,
                                      j.frame_number + j.phase_count)
        IN  /\ call[1].result = "Ok"
            /\ j.phase_count >= (IF call[1].kind = "SR" THEN 8 ELSE MinPhaseCount)
            /\ j.i \in 0..(j.phase_count - 1)
            /\ \E n \in 0..MaxFrame : j.frame_number = n * j.phase_count + j.i
            /\ later.phase_count = j.phase_count
            /\ later.offset = j.offset

C24_Witness ==
    /\ call[1].op = "suggested_jitter"
    /\ call[1].kind = "RR"
    /\ call[1].jitter.upscaled_width = call[1].jitter.render_width
    /\ call[1].jitter.phase_count = MinPhaseCount
    /\ call[1].jitter.frame_number = MinPhaseCount + 1
    /\ call[1].jitter.i = 1
    /\ call[1].jitter.offset = <<<<0, 4>>, <<-1, 6>>>>

---------------------------------------------------------------------------
(* The context across render, checked under Spec.                          *)

\* this step is a step of caller t's render call
RenderStep(t) == call'[t].op = "render" /\ pc'[t] # pc[t]

\* render of caller t has returned Ok or Err
RenderReturned(t) ==
    call[t].op = "render" /\ call[t].result \in {"Ok", "Err"} /\ pc[t] = "idle"

\* how often render has invoked NGX_VULKAN_EVALUATE_* in this call
Evaluations(t) ==
    Cardinality({k \in 1..Len(call[t].calls) : call[t].calls[k].name = "EVALUATE"})

\* C25: no step of render changes the context: its output resolution, its
\* render resolutions and its native handle are after the call what they
\* were before it.  A render call invokes the evaluate entry point at most
\* once, exactly once if it returns Ok or Err, and Err exactly when that one
\* evaluation failed; when it has returned, with either result, the context
\* is alive with the handle the call used and the SDK lock is free and not
\* poisoned, so that render can be called again.
C25_RenderLeavesContext ==
    /\ [][\A t \in Threads : RenderStep(t) => ctx'[t] = ctx[t]]_vars
    /\ [](\A t \in Threads :
            /\ call[t].op = "render" => Evaluations(t) <= 1
            /\ RenderReturned(t) =>
                  /\ Evaluations(t) = 1
                  /\ (call[t].result = "Err") <=> (call[t].status # NgxSuccess)
                  /\ ctx[t].state = "alive"
                  /\ ctx[t].feature = call[t].feature
                  /\ lock # t
                  /\ ~poisoned)

\* a render that succeeded after the command buffer of a render that failed
\* (its transitions, no evaluation) was submitted
C25_Witness ==
    /\ RenderReturned(1)
    /\ call[1].result = "Ok"
    /\ Len(enc[1]) = 2
    /\ enc[1][2] = EvaluateCmd(ctx[1].feature)
    /\ \E k \in 1..Len(queue) :
          Len(queue[k]) = 1 /\ queue[k][1].cmd = "transition_resources"

=============================================================================
